---- MODULE Spec2Model ----
(***************************************************************************)
(* A model of termshot's rendering engine (internal/img/output.go):        *)
(* the Scaffold's line-wrapping ingestion (AddContent), the layout         *)
(* measurement (measureContent), the per-rune draw loop of image(), the    *)
(* canvas clipping of WritePNG and the font lookup of                      *)
(* LoadFontsFromEmbedded.                                                  *)
(*                                                                         *)
(* Conventions.                                                            *)
(*  - A rune is its code point (Go's rune is an int32).                    *)
(*  - A 64-bit style word (bunt's ColoredRune.Settings) is the tuple of    *)
(*    its 8 bytes, least significant first, so that no field needs more    *)
(*    than 8 bits of integer arithmetic.                                   *)
(*  - Font metrics are 26.6 fixed-point integers as in x/image/font.       *)
(*  - float64 pixel quantities are integers in units of 1/Sub pixel;       *)
(*    Sub is chosen so that height/64 and half-steps of the line spacing   *)
(*    are exact.  lineSpacing is kept in halves (2 is 1.0, 3 is 1.5).      *)
(***************************************************************************)
EXTENDS Integers, Sequences, FiniteSets, TLC

VARIABLES
    content,          \* Scaffold.content: sequence of ColoredRune
    columns,          \* Scaffold.columns (0 = unlimited)
    err,              \* the error returned by the last AddContent or image() call
    expected,         \* history: concatenation of each call's own wrapped output
    input,            \* history: the runes the last AddContent call was given,
                      \* and s.columns at that call
    lineSpacing,      \* Scaffold.lineSpacing, in halves
    tabSpaces,        \* Scaffold.tabSpaces
    drawDecorations,  \* Scaffold.drawDecorations
    drawShadow,       \* Scaffold.drawShadow
    shadowRadius,     \* Scaffold.shadowRadius
    regular,          \* Scaffold.regular, a face's metrics: adv, height, ascent
    bold,             \* Scaffold.bold
    italic,           \* Scaffold.italic
    boldItalic,       \* Scaffold.boldItalic
    pc,               \* position of WritePNG and its image() call: "idle",
                      \* "draw", "done", "failed", "written"
    measuredWidth,    \* image(): the width measureContent returned
    contentWidth,     \* image(): contentWidth after the minimum-size floor
    contentHeight,    \* image(): contentHeight
    idx,              \* image(): number of runes of content the loop has handled
    x, y,             \* image(): the draw cursor
    face,             \* image(): the face set by the last SetFontFace
    drawn,            \* image(): canvas operations issued for the last rune
    raster,           \* WritePNG: the pixels of the image image() returns
    clipCanvas,       \* Scaffold.clipCanvas
    rectArgs,         \* WritePNG: the arguments handed to image.Rect
    out,              \* WritePNG: the bounds of the image handed to png.Encode
    entries,          \* LoadFontsFromEmbedded: the directory listing
    foundFiles,       \* LoadFontsFromEmbedded: style -> file name
    fontResult        \* LoadFontsFromEmbedded: what the call returned

vars == <<content, columns, err, expected, input, lineSpacing, tabSpaces,
          drawDecorations, drawShadow, shadowRadius, regular, bold, italic,
          boldItalic, pc, measuredWidth, contentWidth, contentHeight, idx, x, y,
          face, drawn, raster, clipCanvas, rectArgs, out, entries, foundFiles,
          fontResult>>

\* the fields NewImageCreator takes from the configuration and no method sets
configVars == <<lineSpacing, tabSpaces, shadowRadius>>
faceVars == <<regular, bold, italic, boldItalic>>
scaffoldVars == <<content, columns, err, expected, configVars,
                  drawDecorations, drawShadow, faceVars>>
imageVars == <<pc, measuredWidth, contentWidth, contentHeight, idx, x, y, face, drawn>>
writeVars == <<raster, rectArgs, out>>
clipVars == <<clipCanvas, writeVars>>
fontVars == <<entries, foundFiles, fontResult>>

----------------------------------------------------------------------------
(* Bounds of the model.                                                    *)

\* longest input of one AddContent call
MaxLen == 2
\* most runes a further AddContent call may reach: the content held and its input
MaxContent == 2
\* width and height of the rasters handed to the clipper
ImgSize == 7
\* longest input of the single call of the wrapping scenarios
MaxWrapLen == 6
\* most opaque pixels in a raster
MaxPixels == 2
\* largest fixed column count
MaxColumns == 1

----------------------------------------------------------------------------
(* Runes and style words.                                                  *)

NL == 10
TAB == 9
LetterA == 97
Ballot == 10007
ModifierX == 739
Times == 215

Max(a, b) == IF a > b THEN a ELSE b
Min(a, b) == IF a < b THEN a ELSE b

\* the style word with low byte b0, foreground fg and background bg (RGB triples)
Word(b0, fg, bg) == <<b0, fg[1], fg[2], fg[3], bg[1], bg[2], bg[3], 0>>

NoColor == <<0, 0, 0>>
PlainWord == Word(0, NoColor, NoColor)

Rune(sym, settings) == [Symbol |-> sym, Settings |-> settings]

\* cr.Settings & 0x1C
StyleBits(settings) == ((settings[1] \div 4) % 8) * 4
\* cr.Settings & 0x02
BgBit(settings) == ((settings[1] \div 2) % 2) * 2
\* cr.Settings & 0x01
FgBit(settings) == settings[1] % 2
\* (cr.Settings>>8)&0xFF, (cr.Settings>>16)&0xFF, (cr.Settings>>24)&0xFF
FgRGB(settings) == <<settings[2], settings[3], settings[4]>>
\* (cr.Settings>>32)&0xFF, (cr.Settings>>40)&0xFF, (cr.Settings>>48)&0xFF
BgRGB(settings) == <<settings[5], settings[6], settings[7]>>

----------------------------------------------------------------------------
(* AddContent.                                                             *)

\* the widths term.GetTerminalSize may report
TermWidths == {2, 80}

\* what the calls of term.GetTerminalSize made while n runes are handled may
\* report: one width per rune, and no call at all with a fixed column count
TermReads(cols, n) == IF cols # 0 THEN { <<>> } ELSE [1..n -> TermWidths]

\* GetFixedColumns at rune i: the fixed column count, else the terminal's
\* width as read for this rune
GetFixedColumns(cols, tws, i) == IF cols # 0 THEN cols ELSE tws[i]

\* The loop of AddContent over parsed[i..], with the local counter and tmp.
RECURSIVE wrapLoop(_, _, _, _, _, _)
wrapLoop(parsed, i, counter, tmp, cols, tws) ==
    IF i > Len(parsed) THEN tmp
    ELSE LET cr == parsed[i]
             c1 == counter + 1
             c2 == IF cr.Symbol = NL THEN 0 ELSE c1
             wrap == c2 > GetFixedColumns(cols, tws, i)
             c3 == IF wrap THEN 0 ELSE c2
             t1 == IF wrap THEN Append(tmp, Rune(NL, cr.Settings)) ELSE tmp
         IN  wrapLoop(parsed, i + 1, c3, Append(t1, cr), cols, tws)

\* the number of runes after the last newline of s
RECURSIVE trailing(_)
trailing(s) ==
    IF s = <<>> \/ s[Len(s)].Symbol = NL THEN 0
    ELSE 1 + trailing(SubSeq(s, 1, Len(s) - 1))

\* a faulty variant: the counter is carried over from the content already held
appendWrappedCarry(old, parsed, cols, tws) ==
    old \o wrapLoop(parsed, 1, trailing(old), <<>>, cols, tws)

\* s.content = append(s.content, tmp...), tmp built with a counter local to the call
appendWrapped(old, parsed, cols, tws) ==
    old \o wrapLoop(parsed, 1, 0, <<>>, cols, tws)

----------------------------------------------------------------------------
(* measureContent.                                                         *)

\* units per pixel: 64 for the 26.6 heights, 2 for the halves of lineSpacing
Sub == 2 * 64

\* float64(n) for a whole number of pixels
Px(n) == n * Sub

\* tmp[i] = cr.Symbol
Symbols(s) == [i \in 1..Len(s) |-> s[i].Symbol]

\* strings.TrimSuffix(str, "\n")
TrimSuffixNL(r) ==
    IF Len(r) > 0 /\ r[Len(r)] = NL THEN SubSeq(r, 1, Len(r) - 1) ELSE r

\* strings.Split(str, "\n"): one more piece than there are separators
RECURSIVE SplitNL(_)
SplitNL(r) ==
    IF \A i \in 1..Len(r) : r[i] # NL THEN <<r>>
    ELSE LET k == CHOOSE i \in 1..Len(r) :
                      r[i] = NL /\ \A j \in 1..(i - 1) : r[j] # NL
         IN  <<SubSeq(r, 1, k - 1)>> \o SplitNL(SubSeq(r, k + 1, Len(r)))

Lines(s) == SplitNL(TrimSuffixNL(Symbols(s)))

\* font.Drawer.MeasureString on a monospace face: the sum of the advances (26.6)
MeasureString(str, f) == Len(str) * f.adv

\* fontHeight(): float64(Metrics().Height >> 6)
fontHeight(f) == Px(f.height \div 64)

\* the width measureContent returns
RECURSIVE maxLineWidth(_, _, _)
maxLineWidth(lines, f, width) ==
    IF lines = <<>> THEN width
    ELSE LET lineWidth == Px(MeasureString(Head(lines), f) \div 64)
         IN  maxLineWidth(Tail(lines), f,
                          IF lineWidth > width THEN lineWidth ELSE width)

\* strings.Repeat("a", n)
Repeat(sym, n) == [i \in 1..n |-> sym]

measureWidth(s, cols, f) ==
    IF cols = 0 THEN maxLineWidth(Lines(s), f, 0)
    ELSE Px(MeasureString(Repeat(LetterA, cols), f) \div 64)

\* a faulty variant: every newline counts as a line, the trailing one included
measureHeightNoTrim(s, f, ls) ==
    (fontHeight(f) * ((Len(SplitNL(Symbols(s))) - 1) * ls + 2)) \div 2

\* fontHeight * (float64(len(lines)-1)*lineSpacing + 1), lineSpacing = ls / 2
measureHeight(s, f, ls) ==
    (fontHeight(f) * ((Len(Lines(s)) - 1) * ls + 2)) \div 2

----------------------------------------------------------------------------
(* image(): geometry.                                                      *)

factor == 1
Margin == 48
Padding == 24
ShadowOffsetX == 8
ShadowOffsetY == 8

\* f(value) = s.factor * value
F(value) == Px(factor * value)

radius == F(9)
distance == F(25)
titleOffset(deco) == IF deco THEN F(40) ELSE 0
xOffset(shadow) == IF shadow THEN F(Margin) - F(ShadowOffsetX) \div 2 ELSE F(Margin)
yOffset(shadow) == IF shadow THEN F(Margin) - F(ShadowOffsetY) \div 2 ELSE F(Margin)

\* the cursor's start: the left text margin and the first baseline
leftTextMargin(shadow) == xOffset(shadow) + F(Padding)
startY(shadow, deco, f) ==
    yOffset(shadow) + F(Padding) + titleOffset(deco) + Px(f.ascent \div 64)

\* bunt.LightGray
defaultForegroundColor == <<211, 211, 211>>

----------------------------------------------------------------------------
(* image(): the draw loop.                                                 *)

\* a faulty variant: bits 2 and 3 are tested as flags, so classes 5-7 change the face
faceOfFlags(cr) ==
    IF (cr.Settings[1] \div 4) % 2 = 1
    THEN (IF (cr.Settings[1] \div 8) % 2 = 1 THEN "boldItalic" ELSE "bold")
    ELSE (IF (cr.Settings[1] \div 8) % 2 = 1 THEN "italic" ELSE "regular")

\* switch cr.Settings & 0x1C: the face handed to dc.SetFontFace
faceOf(cr) ==
    CASE StyleBits(cr.Settings) = 4 -> "bold"
      [] StyleBits(cr.Settings) = 8 -> "italic"
      [] StyleBits(cr.Settings) = 12 -> "boldItalic"
      [] OTHER -> "regular"

\* dc.MeasureString(str): w = float64(advance >> 6), h = Metrics().Height / 64
glyphW(f) == Px(f.adv \div 64)
glyphH(f) == f.height * 2

\* a canvas operation
Op(kind, px, py, w, h, rgb, sym) ==
    [op |-> kind, x |-> px, y |-> py, w |-> w, h |-> h, rgb |-> rgb, sym |-> sym]

\* switch cr.Settings & 0x02: dc.DrawRectangle(x, y-h+12, w, h); dc.Fill()
backgroundOps(cr, px, py, f) ==
    IF BgBit(cr.Settings) = 2
    THEN <<Op("fill", px, py - glyphH(f) + Px(12), glyphW(f), glyphH(f),
              BgRGB(cr.Settings), 0)>>
    ELSE <<>>

\* switch cr.Settings & 0x01: the colour the glyph is drawn in
foreground(cr) ==
    IF FgBit(cr.Settings) = 1 THEN FgRGB(cr.Settings) ELSE defaultForegroundColor

\* case U+2717, U+02E3: str = U+00D7
substitute(sym) == IF sym \in {Ballot, ModifierX} THEN Times ELSE sym

\* dc.DrawString(str, x, y) and, for the underline class, dc.DrawLine + Stroke
glyphOps(cr, px, py, f) ==
    <<Op("glyph", px, py, glyphW(f), glyphH(f), foreground(cr),
         substitute(cr.Symbol))>>
    \o (IF StyleBits(cr.Settings) = 16
        THEN <<Op("underline", px, py + F(4), glyphW(f), F(1), foreground(cr), 0)>>
        ELSE <<>>)

\* the metrics of the face dc.SetFontFace was handed
faceMetrics(name, r, b, i, bi) ==
    CASE name = "bold" -> b
      [] name = "italic" -> i
      [] name = "boldItalic" -> bi
      [] OTHER -> r

\* the canvas operations one iteration of the loop issues
runeOps(cr, px, py, f) ==
    backgroundOps(cr, px, py, f)
    \o (IF cr.Symbol \in {NL, TAB} THEN <<>> ELSE glyphOps(cr, px, py, f))

\* the cursor after one iteration of the loop
nextX(cr, px, f, tabs, shadow) ==
    CASE cr.Symbol = NL -> leftTextMargin(shadow)
      [] cr.Symbol = TAB -> px + glyphW(f) * tabs
      [] OTHER -> px + glyphW(f)

nextY(cr, py, f, ls) ==
    IF cr.Symbol = NL THEN py + (glyphH(f) * ls) \div 2 ELSE py

----------------------------------------------------------------------------
(* The Scaffold: construction, AddContent, image().                        *)

\* the faces' metrics, 26.6: a 6 px advance with a 14 px height, and a large
\* face whose advance and height are not whole pixels
Faces == { [adv |-> 384, height |-> 896, ascent |-> 704],
           [adv |-> 2592, height |-> 928, ascent |-> 720] }

\* line spacings, in halves: 1.0 and 1.5
LineSpacings == {2, 3}

\* tab widths, in glyphs
TabSpaces == {1, 2}

\* uint8(math.Min(f*config.ShadowRadius, 255)): a radius of 0 and a usual one
ShadowRadii == {0, 16}

\* stackblur.Process refuses a radius below 1
blurFails(r) == r < 1

PlainRunes == { Rune(LetterA, PlainWord), Rune(NL, PlainWord), Rune(TAB, PlainWord) }

RECURSIVE SeqsUpTo(_, _)
SeqsUpTo(S, n) ==
    IF n = 0 THEN { <<>> }
    ELSE LET shorter == SeqsUpTo(S, n - 1)
         IN  shorter \cup { Append(t, e) : t \in shorter, e \in S }

\* "hello\n"
Hello == << Rune(104, PlainWord), Rune(101, PlainWord), Rune(108, PlainWord),
            Rune(108, PlainWord), Rune(111, PlainWord), Rune(NL, PlainWord) >>

\* what bunt.ParseStream may hand to AddContent
Inputs == SeqsUpTo(PlainRunes, MaxLen) \cup { Hello }

Red == <<237, 101, 90>>
Navy == <<0, 0, 128>>

\* every combination of the two colour flags and the style class, on a glyph,
\* a newline, a tab and a substituted glyph
StyledRunes ==
    { Rune(sym, Word(b0, Red, Navy)) : sym \in {LetterA, NL, TAB, Ballot}, b0 \in 0..31 }

\* one styled rune, and a styled glyph followed by a plain one
StyledInputs ==
    { <<r>> : r \in StyledRunes }
    \cup { <<r, Rune(LetterA, PlainWord)>> : r \in { q \in StyledRunes : q.Symbol = LetterA } }

\* one call's output on its own, used being the number of runes counted on
\* the current line: the runes of parsed[i..] in order, with a newline (in the
\* style of the rune it precedes) put before a rune that finds the line full
\* at the width in force for it
RECURSIVE ownWrap(_, _, _, _, _)
ownWrap(parsed, i, used, cols, tws) ==
    IF i > Len(parsed) THEN <<>>
    ELSE LET cr == parsed[i]
             width == IF cols # 0 THEN cols ELSE tws[i]
         IN  IF cr.Symbol = NL THEN <<cr>> \o ownWrap(parsed, i + 1, 0, cols, tws)
             ELSE IF used >= width
                  THEN <<Rune(NL, cr.Settings), cr>>
                       \o ownWrap(parsed, i + 1, 0, cols, tws)
                  ELSE <<cr>> \o ownWrap(parsed, i + 1, used + 1, cols, tws)

InitScaffold ==
    /\ content = <<>>
    /\ columns \in 0..MaxColumns
    /\ err = "nil"
    /\ expected = <<>>
    /\ input = [called |-> FALSE, parsed |-> <<>>, columns |-> 0]
    /\ lineSpacing \in LineSpacings
    /\ tabSpaces \in TabSpaces
    /\ drawDecorations \in BOOLEAN
    /\ drawShadow \in BOOLEAN
    /\ shadowRadius \in ShadowRadii
    /\ regular \in Faces
    /\ bold \in Faces
    /\ italic \in Faces
    /\ boldItalic \in Faces

InitImage ==
    /\ pc = "idle"
    /\ measuredWidth = 0
    /\ contentWidth = 0
    /\ contentHeight = 0
    /\ idx = 0
    /\ x = 0
    /\ y = 0
    /\ face = "none"
    /\ drawn = <<>>

NoClip ==
    /\ raster = {}
    /\ clipCanvas = FALSE
    /\ rectArgs = <<>>
    /\ out = <<>>

NoFonts ==
    /\ entries = <<>>
    /\ foundFiles = <<>>
    /\ fontResult = "none"

Init == InitScaffold /\ InitImage /\ NoClip /\ NoFonts

\* AddContent, the stream parsed into `parsed`
AddContent(parsed) ==
    /\ pc = "idle"
    /\ Len(content) + Len(parsed) <= MaxContent \/ content = <<>>
    /\ \E tws \in TermReads(columns, Len(parsed)) :
          /\ content' = appendWrapped(content, parsed, columns, tws)
          /\ expected' = expected \o ownWrap(parsed, 1, 0, columns, tws)
    /\ err' = "nil"
    /\ UNCHANGED <<columns, configVars, drawDecorations, drawShadow, faceVars>>
    /\ UNCHANGED <<imageVars, clipVars, fontVars>>

\* AddContent when bunt.ParseStream fails: the early return
AddContentFails ==
    /\ pc = "idle"
    /\ UNCHANGED input
    /\ err' = "failed to parse input stream"
    /\ UNCHANGED <<content, columns, expected, configVars, drawDecorations,
                   drawShadow, faceVars>>
    /\ UNCHANGED <<imageVars, clipVars, fontVars>>

\* SetFontFaceRegular
SetFontFaceRegular(f) ==
    /\ pc = "idle"
    /\ regular' = f
    /\ UNCHANGED <<content, columns, err, expected, configVars, drawDecorations,
                   drawShadow, bold, italic, boldItalic>>
    /\ UNCHANGED <<input, imageVars, clipVars, fontVars>>

\* SetFontFaceBold
SetFontFaceBold(f) ==
    /\ pc = "idle"
    /\ bold' = f
    /\ UNCHANGED <<content, columns, err, expected, configVars, drawDecorations,
                   drawShadow, regular, italic, boldItalic>>
    /\ UNCHANGED <<input, imageVars, clipVars, fontVars>>

\* SetFontFaceItalic
SetFontFaceItalic(f) ==
    /\ pc = "idle"
    /\ italic' = f
    /\ UNCHANGED <<content, columns, err, expected, configVars, drawDecorations,
                   drawShadow, regular, bold, boldItalic>>
    /\ UNCHANGED <<input, imageVars, clipVars, fontVars>>

\* SetFontFaceBoldItalic
SetFontFaceBoldItalic(f) ==
    /\ pc = "idle"
    /\ boldItalic' = f
    /\ UNCHANGED <<content, columns, err, expected, configVars, drawDecorations,
                   drawShadow, regular, bold, italic>>
    /\ UNCHANGED <<input, imageVars, clipVars, fontVars>>

\* SetColumns
SetColumns(c) ==
    /\ pc = "idle"
    /\ columns' = c
    /\ UNCHANGED <<content, err, expected, configVars, drawDecorations,
                   drawShadow, faceVars>>
    /\ UNCHANGED <<input, imageVars, clipVars, fontVars>>

\* DrawDecorations
DrawDecorations(value) ==
    /\ pc = "idle"
    /\ drawDecorations' = value
    /\ UNCHANGED <<content, columns, err, expected, configVars, drawShadow,
                   faceVars>>
    /\ UNCHANGED <<input, imageVars, clipVars, fontVars>>

\* DrawShadow
DrawShadow(value) ==
    /\ pc = "idle"
    /\ drawShadow' = value
    /\ UNCHANGED <<content, columns, err, expected, configVars, drawDecorations,
                   faceVars>>
    /\ UNCHANGED <<input, imageVars, clipVars, fontVars>>

\* ClipCanvas
ClipCanvas(value) ==
    /\ pc = "idle"
    /\ clipCanvas' = value
    /\ UNCHANGED <<scaffoldVars, input, imageVars, writeVars, fontVars>>

\* image() when the shadow's blur fails: measureContent has run, nothing is
\* drawn, and WritePNG returns the error
ImageFails ==
    /\ pc = "idle"
    /\ drawShadow
    /\ blurFails(shadowRadius)
    /\ pc' = "failed"
    /\ err' = "blur radius must be greater than 0"
    /\ measuredWidth' = measureWidth(content, columns, regular)
    /\ contentWidth' = Max(measureWidth(content, columns, regular),
                           3 * distance + 3 * radius)
    /\ contentHeight' = measureHeight(content, regular, lineSpacing)
    /\ UNCHANGED <<idx, x, y, face, drawn>>
    /\ UNCHANGED <<content, columns, expected, configVars, drawDecorations,
                   drawShadow, faceVars>>
    /\ UNCHANGED <<input, clipVars, fontVars>>

\* image() up to the draw loop: measurement, the floor, the cursor's start
ImageStart ==
    /\ pc = "idle"
    /\ drawShadow => ~blurFails(shadowRadius)
    /\ pc' = "draw"
    /\ measuredWidth' = measureWidth(content, columns, regular)
    /\ contentWidth' = Max(measureWidth(content, columns, regular),
                           3 * distance + 3 * radius)
    /\ contentHeight' = measureHeight(content, regular, lineSpacing)
    /\ x' = leftTextMargin(drawShadow)
    /\ y' = startY(drawShadow, drawDecorations, regular)
    /\ idx' = 0
    /\ face' = "none"
    /\ drawn' = <<>>
    /\ UNCHANGED <<scaffoldVars, input, clipVars, fontVars>>

\* one iteration of for _, cr := range s.content
DrawRune ==
    /\ pc = "draw"
    /\ idx < Len(content)
    /\ LET cr == content[idx + 1]
           f == faceMetrics(faceOf(cr), regular, bold, italic, boldItalic)
       IN  /\ face' = faceOf(cr)
           /\ drawn' = runeOps(cr, x, y, f)
           /\ x' = nextX(cr, x, f, tabSpaces, drawShadow)
           /\ y' = nextY(cr, y, f, lineSpacing)
    /\ idx' = idx + 1
    /\ UNCHANGED <<pc, measuredWidth, contentWidth, contentHeight>>
    /\ UNCHANGED <<scaffoldVars, input, clipVars, fontVars>>

\* return dc.Image(), nil
ImageReturn ==
    /\ pc = "draw"
    /\ idx = Len(content)
    /\ pc' = "done"
    /\ err' = "nil"
    /\ UNCHANGED <<measuredWidth, contentWidth, contentHeight, idx, x, y, face, drawn>>
    /\ UNCHANGED <<content, columns, expected, configVars, drawDecorations,
                   drawShadow, faceVars>>
    /\ UNCHANGED <<input, clipVars, fontVars>>

\* the setters but SetColumns
Setters ==
    \/ \E f \in Faces : SetFontFaceRegular(f)
    \/ \E f \in Faces : SetFontFaceBold(f)
    \/ \E f \in Faces : SetFontFaceItalic(f)
    \/ \E f \in Faces : SetFontFaceBoldItalic(f)
    \/ \E value \in BOOLEAN : DrawDecorations(value)
    \/ \E value \in BOOLEAN : DrawShadow(value)
    \/ \E value \in BOOLEAN : ClipCanvas(value)

\* the Scaffold with its column count left as constructed
NextFixed ==
    \/ \E parsed \in Inputs : AddContent(parsed) /\ UNCHANGED input
    \/ AddContentFails
    \/ Setters
    \/ ImageFails
    \/ ImageStart
    \/ DrawRune
    \/ ImageReturn

SpecFixed == Init /\ [][NextFixed]_vars

Next ==
    \/ NextFixed
    \/ \E c \in 0..MaxColumns : SetColumns(c)

Spec == Init /\ [][Next]_vars

\* one call with styled input, then image()
NextStyled ==
    \/ \E parsed \in StyledInputs :
          content = <<>> /\ AddContent(parsed) /\ UNCHANGED input
    \/ \E c \in 0..MaxColumns : SetColumns(c)
    \/ Setters
    \/ AddContentFails
    \/ ImageStart
    \/ DrawRune
    \/ ImageReturn

\* a configuration whose blur radius stackblur accepts
InitStyled == Init /\ ~blurFails(shadowRadius)

SpecStyled == InitStyled /\ [][NextStyled]_vars

\* a single AddContent call on an empty Scaffold, its input kept
WrapInputs == SeqsUpTo(PlainRunes, MaxWrapLen)

NextWrap ==
    \/ \E parsed \in WrapInputs :
          /\ content = <<>>
          /\ ~input.called
          /\ AddContent(parsed)
          /\ input' = [called |-> TRUE, parsed |-> parsed, columns |-> columns]
    \/ \E c \in 0..MaxColumns : SetColumns(c)
    \/ AddContentFails

InitWrap ==
    /\ Init
    /\ regular.adv = 384 /\ bold = regular /\ italic = regular /\ boldItalic = regular
    /\ ~drawShadow /\ shadowRadius = 16

SpecWrap == InitWrap /\ [][NextWrap]_vars

----------------------------------------------------------------------------
(* Properties of AddContent.                                               *)

\* the indices of the newlines of a rune sequence
NewlinesAt(s) == { i \in 1..Len(s) : s[i].Symbol = NL }

\* the longest run of runes between newlines
LongestLine(s) ==
    LET fits(n) == \E i \in 1..(Len(s) + 1) :
                      /\ i + n - 1 <= Len(s)
                      /\ \A k \in i..(i + n - 1) : s[k].Symbol # NL
    IN  CHOOSE n \in 0..Len(s) :
            fits(n) /\ \A m \in (n + 1)..Len(s) : ~fits(m)

\* C1: after a single AddContent call on an empty Scaffold with a fixed column
\* count W >= 1, every line of the content holds at most W runes.
C1_LinesWithinColumns ==
    (input.called /\ input.columns >= 1) => LongestLine(content) <= input.columns

\* C2: one AddContent call on an empty Scaffold with exactly 3*W runes, none a
\* newline, inserts exactly 2 newlines: the content is 3 lines.
C2_ThreeLines ==
    (/\ input.called
     /\ input.columns >= 1
     /\ Len(input.parsed) = 3 * input.columns
     /\ NewlinesAt(input.parsed) = {})
    => Cardinality(NewlinesAt(content)) = 2

\* C8: the content is the concatenation, in call order, of what each call's
\* input wraps to on its own with a column counter starting at 0: earlier
\* content stays as a prefix and no counter is carried from call to call.
C8_AppendsOwnWrapping == content = expected

\* a rune of one call followed by a rune of another, unwrapped at width 1:
\* a single call, or a carried counter, would have broken the line
C8_Witness ==
    /\ columns = 1
    /\ pc = "idle"
    /\ Len(content) = 2
    /\ \A i \in 1..2 : content[i].Symbol = LetterA

----------------------------------------------------------------------------
(* Properties of measureContent.                                           *)

\* the number of lines: one more than the newlines, a final newline not counted
LineCount(s) ==
    Cardinality(NewlinesAt(s)) + 1
    - (IF Len(s) > 0 /\ s[Len(s)].Symbol = NL THEN 1 ELSE 0)

\* C7: with unlimited columns measureContent returns the largest per-line
\* advance as the width and fontHeight * ((L - 1) * lineSpacing + 1) as the
\* height, L the number of lines after dropping one trailing newline;
\* "hello\n" at advance 6, height 14, spacing 1 measures 30 by 14.
C7_Measure ==
    (pc # "idle" /\ columns = 0) =>
        /\ measuredWidth = Px((LongestLine(content) * regular.adv) \div 64)
        /\ 2 * contentHeight =
              Px(regular.height \div 64) * ((LineCount(content) - 1) * lineSpacing + 2)
        /\ (content = Hello /\ regular.adv = 384 /\ regular.height = 896
            /\ lineSpacing = 2)
           => (measuredWidth = Px(30) /\ contentHeight = Px(14))

\* "hello\n" measured with a 6 px advance, a 14 px height and line spacing 1.0
C7_WitnessHello ==
    /\ pc = "done"
    /\ columns = 0
    /\ content = Hello
    /\ regular.adv = 384
    /\ regular.height = 896
    /\ lineSpacing = 2
    /\ measuredWidth = Px(30)
    /\ contentHeight = Px(14)

----------------------------------------------------------------------------
(* Properties of the draw loop.                                            *)

\* the style class: bits 2-4 of the style word
StyleClass(cr) == (cr.Settings[1] \div 4) % 8

OpKinds(ops) == { ops[i].op : i \in 1..Len(ops) }

\* C6: the face is chosen from the style class alone: 0 regular, 1 bold,
\* 2 italic, 3 bold-italic, 4 regular with an underline, 5-7 regular with no
\* underline, whatever the colour flags and fields.
C6_FaceFromStyleClass ==
    (pc # "idle" /\ idx >= 1) =>
        LET cr == content[idx]
        IN  /\ face = CASE StyleClass(cr) = 1 -> "bold"
                        [] StyleClass(cr) = 2 -> "italic"
                        [] StyleClass(cr) = 3 -> "boldItalic"
                        [] OTHER -> "regular"
            /\ cr.Symbol \notin {NL, TAB} =>
                  /\ "glyph" \in OpKinds(drawn)
                  /\ "underline" \in OpKinds(drawn) <=> StyleClass(cr) = 4

\* an out-of-range class with both colour flags set, drawn regular, not underlined
C6_Witness ==
    /\ pc = "draw"
    /\ idx >= 1
    /\ StyleClass(content[idx]) = 5
    /\ content[idx].Settings[1] % 4 = 3
    /\ content[idx].Symbol = LetterA
    /\ face = "regular"
    /\ OpKinds(drawn) = {"fill", "glyph"}

\* C9: a newline or a tab paints nothing, whatever its style word; a newline
\* puts x at the left text margin and adds glyphHeight * lineSpacing to y, a
\* tab adds glyphWidth * tabSpaces to x and leaves y.
C9_ControlRunesPaintNothing ==
    (pc # "idle" /\ idx >= 1 /\ content[idx].Symbol \in {NL, TAB}) =>
        LET f == CASE StyleClass(content[idx]) = 1 -> bold
                   [] StyleClass(content[idx]) = 2 -> italic
                   [] StyleClass(content[idx]) = 3 -> boldItalic
                   [] OTHER -> regular
        IN  /\ drawn = <<>>
            /\ content[idx].Symbol = NL => x = leftTextMargin(drawShadow)
            /\ (idx = 1 /\ content[idx].Symbol = NL) =>
                  2 * y = 2 * startY(drawShadow, drawDecorations, regular)
                          + glyphH(f) * lineSpacing
            /\ (idx = 1 /\ content[idx].Symbol = TAB) =>
                  /\ x = leftTextMargin(drawShadow) + glyphW(f) * tabSpaces
                  /\ y = startY(drawShadow, drawDecorations, regular)

\* C10: the draw cursor stays inside the area measureContent reserved: x never
\* passes leftTextMargin + contentWidth and the baseline y never passes
\* startY + (contentHeight - fontHeight).
C10_CursorInsideContentArea ==
    pc \in {"draw", "done"} =>
        /\ x <= leftTextMargin(drawShadow) + contentWidth
        /\ y <= startY(drawShadow, drawDecorations, regular)
                + (contentHeight - fontHeight(regular))

----------------------------------------------------------------------------
(* WritePNG: clipping the canvas.                                          *)

\* math.MaxInt, as far as the model's integers reach
MaxInt == 2147483647

Transparent == <<0, 0, 0, 0>>
\* non-transparent colours: opaque black and the red of the window button
Colors == { <<0, 0, 0, 255>>, <<237, 101, 90, 255>> }

Points == (0..(ImgSize - 1)) \X (0..(ImgSize - 1))

\* the sets of at most n points
RECURSIVE SubsetsUpTo(_, _)
SubsetsUpTo(S, n) ==
    IF n = 0 THEN { {} }
    ELSE LET smaller == SubsetsUpTo(S, n - 1)
         IN  smaller \cup { t \cup {e} : t \in smaller, e \in S }

\* the images image() may return: ImgSize square, all but a few pixels transparent
Rasters ==
    UNION { [ps -> Colors] : ps \in SubsetsUpTo(Points, MaxPixels) }

\* imgRGBA.At(x, y)
At(img, px, py) == IF <<px, py>> \in DOMAIN img THEN img[<<px, py>>] ELSE Transparent

\* r == 0 && g == 0 && b == 0 && a == 0
isTransparent(c) == c[1] = 0 /\ c[2] = 0 /\ c[3] = 0 /\ c[4] = 0

\* imgRGBA.Bounds()
Bounds == <<0, 0, ImgSize, ImgSize>>

\* the scan of WritePNG: one step of the two nested loops, column by column
RECURSIVE scan(_, _, _, _)
scan(img, px, py, b) ==
    IF px >= Bounds[3] THEN b
    ELSE IF py >= Bounds[4] THEN scan(img, px + 1, Bounds[2], b)
    ELSE IF isTransparent(At(img, px, py)) THEN scan(img, px, py + 1, b)
    ELSE scan(img, px, py + 1,
              << IF px < b[1] THEN px ELSE b[1],
                 IF py < b[2] THEN py ELSE b[2],
                 IF px > b[3] THEN px ELSE b[3],
                 IF py > b[4] THEN py ELSE b[4] >>)

\* minX, minY, maxX, maxY after the scan
scanBounds(img) == scan(img, Bounds[1], Bounds[2], <<MaxInt, MaxInt, 0, 0>>)

\* image.Rect: the rectangle with its corners put in order
Rect(x0, y0, x1, y1) ==
    << Min(x0, x1), Min(y0, y1), Max(x0, x1), Max(y0, y1) >>

\* Rectangle.Empty
Empty(r) == r[1] >= r[3] \/ r[2] >= r[4]

\* Rectangle.Intersect: the zero rectangle when nothing is shared
Intersect(r, q) ==
    LET i == << Max(r[1], q[1]), Max(r[2], q[2]), Min(r[3], q[3]), Min(r[4], q[4]) >>
    IN  IF Empty(i) THEN <<0, 0, 0, 0>> ELSE i

\* imgRGBA.SubImage(r).Bounds()
SubImage(r) == Intersect(r, Bounds)

\* img = imgRGBA.SubImage(image.Rect(minX, minY, maxX, maxY))
clipTo(b) == SubImage(Rect(b[1], b[2], b[3], b[4]))

\* png.Encode refuses an image without pixels
encode(r) == IF Empty(r) THEN "invalid image size" ELSE "nil"

\* a Scaffold whose WritePNG call is followed; raster holds, from the start,
\* the pixels its image() call is going to return
InitClip ==
    /\ content = <<>>
    /\ columns = 0
    /\ err = "nil"
    /\ expected = <<>>
    /\ input = [called |-> FALSE, parsed |-> <<>>, columns |-> 0]
    /\ lineSpacing = 2
    /\ tabSpaces = 1
    /\ drawDecorations = FALSE
    /\ drawShadow \in BOOLEAN
    /\ shadowRadius \in ShadowRadii
    /\ regular = [adv |-> 384, height |-> 896, ascent |-> 704]
    /\ bold = regular
    /\ italic = regular
    /\ boldItalic = regular
    /\ InitImage
    /\ raster \in Rasters
    /\ clipCanvas \in BOOLEAN
    /\ rectArgs = <<>>
    /\ out = [bounds |-> <<0, 0, 0, 0>>, err |-> "none"]
    /\ NoFonts

\* WritePNG when image() failed: return err
WritePNGFails ==
    /\ pc = "failed"
    /\ pc' = "written"
    /\ out' = [bounds |-> <<0, 0, 0, 0>>, err |-> err]
    /\ UNCHANGED <<raster, clipCanvas, rectArgs>>
    /\ UNCHANGED <<scaffoldVars, input, fontVars>>
    /\ UNCHANGED <<measuredWidth, contentWidth, contentHeight, idx, x, y, face, drawn>>

\* WritePNG after image() returned, clipping on
WritePNGClipped ==
    /\ pc = "done"
    /\ clipCanvas
    /\ pc' = "written"
    /\ rectArgs' = scanBounds(raster)
    /\ out' = [bounds |-> clipTo(scanBounds(raster)),
               err |-> encode(clipTo(scanBounds(raster)))]
    /\ UNCHANGED <<raster, clipCanvas>>
    /\ UNCHANGED <<scaffoldVars, input, fontVars>>
    /\ UNCHANGED <<measuredWidth, contentWidth, contentHeight, idx, x, y, face, drawn>>

\* WritePNG after image() returned, clipping off
WritePNGWhole ==
    /\ pc = "done"
    /\ ~clipCanvas
    /\ pc' = "written"
    /\ out' = [bounds |-> Bounds, err |-> encode(Bounds)]
    /\ UNCHANGED <<raster, clipCanvas, rectArgs>>
    /\ UNCHANGED <<scaffoldVars, input, fontVars>>
    /\ UNCHANGED <<measuredWidth, contentWidth, contentHeight, idx, x, y, face, drawn>>

\* the one input of the clipping scenarios: "a"
ClipInputs == { <<Rune(LetterA, PlainWord)>> }

NextClip ==
    \/ \E parsed \in ClipInputs :
          content = <<>> /\ AddContent(parsed) /\ UNCHANGED input
    \/ \E value \in BOOLEAN : ClipCanvas(value)
    \/ \E value \in BOOLEAN : DrawShadow(value)
    \/ ImageFails
    \/ ImageStart
    \/ DrawRune
    \/ ImageReturn
    \/ WritePNGFails
    \/ WritePNGClipped
    \/ WritePNGWhole

SpecClip == InitClip /\ [][NextClip]_vars

\* the positions of the non-transparent pixels
Opaque(img) == { p \in Points : ~isTransparent(At(img, p[1], p[2])) }

\* C3: with clipping on and at least one non-transparent pixel, the image is
\* cropped to the minimal bounding rectangle of the non-transparent pixels and
\* holds every one of them; a lone pixel at (5,5) gives a 1x1 image.
C3_ClipKeepsEveryPixel ==
    (pc = "written" /\ err = "nil" /\ clipCanvas /\ Opaque(raster) # {}) =>
        /\ \A p \in Opaque(raster) :
              /\ out.bounds[1] <= p[1] /\ p[1] < out.bounds[3]
              /\ out.bounds[2] <= p[2] /\ p[2] < out.bounds[4]
        /\ \E p \in Opaque(raster) : p[1] = out.bounds[1]
        /\ \E p \in Opaque(raster) : p[2] = out.bounds[2]
        /\ \E p \in Opaque(raster) : p[1] + 1 = out.bounds[3]
        /\ \E p \in Opaque(raster) : p[2] + 1 = out.bounds[4]
        /\ Opaque(raster) = { <<5, 5>> } => out.bounds = <<5, 5, 6, 6>>

\* C4: with clipping on and every pixel transparent, WritePNG ends with the
\* full image (or an explicit empty result), reached through a guard for the
\* no-pixel case and never through a rectangle built from the untouched
\* bounds minX = minY = MaxInt, maxX = maxY = 0.
C4_TransparentCanvasGuarded ==
    (pc = "written" /\ err = "nil" /\ clipCanvas /\ Opaque(raster) = {}) =>
        /\ out.bounds = Bounds
        /\ out.err = "nil"
        /\ rectArgs # <<MaxInt, MaxInt, 0, 0>>

----------------------------------------------------------------------------
(* LoadFontsFromEmbedded.                                                  *)

styles == << "Regular", "Bold", "Italic", "BoldItalic" >>

\* the characters of the style names
StyleChars(style) ==
    CASE style = "Regular" -> <<"R", "e", "g", "u", "l", "a", "r">>
      [] style = "Bold" -> <<"B", "o", "l", "d">>
      [] style = "Italic" -> <<"I", "t", "a", "l", "i", "c">>
      [] style = "BoldItalic" -> <<"B", "o", "l", "d", "I", "t", "a", "l", "i", "c">>

DotTTF == <<".", "t", "t", "f">>

\* fmt.Sprintf("-%s.ttf", style)
suffixOf(style) == <<"-">> \o StyleChars(style) \o DotTTF

\* a faulty variant: the suffix compared without its first character, the dash
HasSuffixNoDash(str, suffix) ==
    /\ Len(str) >= Len(suffix) - 1
    /\ SubSeq(str, Len(str) - Len(suffix) + 2, Len(str)) = Tail(suffix)

\* strings.HasSuffix
HasSuffix(str, suffix) ==
    /\ Len(str) >= Len(suffix)
    /\ SubSeq(str, Len(str) - Len(suffix) + 1, Len(str)) = suffix

Entry(name, isDir) == [name |-> name, isDir |-> isDir]

\* what the font directory may hold, in the order fs.ReadDir lists it (by name)
Pool ==
    << Entry(<<"-", "B", "o", "l", "d", ".", "t", "t", "f">>, FALSE),
       Entry(<<"B", "a", "r", "-", "B", "o", "l", "d", "I", "t", "a", "l", "i", "c", ".", "t", "t", "f">>, FALSE),
       Entry(<<"B", "a", "r", "-", "R", "e", "g", "u", "l", "a", "r", ".", "t", "t", "f">>, FALSE),
       Entry(<<"D", "i", "r", "-", "I", "t", "a", "l", "i", "c", ".", "t", "t", "f">>, TRUE),
       Entry(<<"F", "o", "o", "-", "B", "o", "l", "d", ".", "t", "t", "f">>, FALSE),
       Entry(<<"F", "o", "o", "-", "B", "o", "l", "d", "I", "t", "a", "l", "i", "c", ".", "t", "t", "f">>, FALSE),
       Entry(<<"F", "o", "o", "-", "I", "t", "a", "l", "i", "c", ".", "o", "t", "f">>, FALSE),
       Entry(<<"F", "o", "o", "-", "I", "t", "a", "l", "i", "c", ".", "t", "t", "f">>, FALSE),
       Entry(<<"F", "o", "o", "-", "R", "e", "g", "u", "l", "a", "r", ".", "t", "t", "f">>, FALSE),
       Entry(<<"F", "o", "o", "-", "r", "e", "g", "u", "l", "a", "r", ".", "t", "t", "f">>, FALSE),
       Entry(<<"F", "o", "o", "I", "t", "a", "l", "i", "c", ".", "t", "t", "f">>, FALSE) >>

\* the listing that holds the entries of Pool picked by keep
RECURSIVE pick(_, _)
pick(keep, i) ==
    IF i > Len(Pool) THEN <<>>
    ELSE (IF i \in keep THEN <<Pool[i]>> ELSE <<>>) \o pick(keep, i + 1)

Listings == { pick(keep, 1) : keep \in SUBSET (1..Len(Pool)) }

\* foundFiles[style] = name
put(found, style, name) ==
    [t \in DOMAIN found \cup {style} |-> IF t = style THEN name ELSE found[t]]

Failure(kind, style) == [err |-> kind, style |-> style, faces |-> <<>>]

\* the two nested loops over the entries and the styles; the result is the map
\* of found files, or the failure the loop returned with
RECURSIVE findFiles(_, _, _, _)
findFiles(list, i, k, found) ==
    IF i > Len(list) THEN [err |-> "nil", found |-> found]
    ELSE IF list[i].isDir \/ ~HasSuffix(list[i].name, DotTTF) \/ k > Len(styles)
         THEN findFiles(list, i + 1, 1, found)
    ELSE IF ~HasSuffix(list[i].name, suffixOf(styles[k]))
         THEN findFiles(list, i, k + 1, found)
    ELSE IF styles[k] \in DOMAIN found
         THEN [err |-> "multiple files found", style |-> styles[k], found |-> found]
    ELSE findFiles(list, i, k + 1, put(found, styles[k], list[i].name))

\* the loop that verifies all required fonts were found: the first style missing
RECURSIVE firstMissing(_, _)
firstMissing(found, k) ==
    IF k > Len(styles) THEN "none"
    ELSE IF styles[k] \notin DOMAIN found THEN styles[k]
    ELSE firstMissing(found, k + 1)

NoFound == [t \in {} |-> <<>>]

InitFonts ==
    /\ content = <<>>
    /\ columns = 0
    /\ err = "nil"
    /\ expected = <<>>
    /\ input = [called |-> FALSE, parsed |-> <<>>, columns |-> 0]
    /\ lineSpacing = 2
    /\ tabSpaces = 1
    /\ drawDecorations = FALSE
    /\ drawShadow = FALSE
    /\ shadowRadius = 16
    /\ regular = [adv |-> 384, height |-> 896, ascent |-> 704]
    /\ bold = regular
    /\ italic = regular
    /\ boldItalic = regular
    /\ InitImage
    /\ NoClip
    /\ entries \in Listings
    /\ foundFiles = NoFound
    /\ fontResult = [err |-> "pending", style |-> "none", faces |-> <<>>]

\* LoadFontsFromEmbedded when fs.ReadDir fails
LoadFontsReadDirFails ==
    /\ fontResult.err = "pending"
    /\ fontResult' = Failure("failed to read embedded font directory", "none")
    /\ UNCHANGED <<entries, foundFiles>>
    /\ UNCHANGED <<scaffoldVars, input, imageVars, clipVars>>

\* LoadFontsFromEmbedded on the listing; broken is the first style whose file
\* loadFontFileFromFS fails on, if any
LoadFontsFromEmbedded(broken) ==
    /\ fontResult.err = "pending"
    /\ LET r == findFiles(entries, 1, 1, NoFound)
           missing == firstMissing(r.found, 1)
       IN  /\ foundFiles' = r.found
           /\ fontResult' =
                 IF r.err # "nil" THEN Failure(r.err, r.style)
                 ELSE IF missing # "none"
                      THEN Failure("missing required font file", missing)
                 ELSE IF broken # "none" THEN Failure("failed to load font", broken)
                 ELSE [err |-> "nil", style |-> "none", faces |-> r.found]
    /\ UNCHANGED entries
    /\ UNCHANGED <<scaffoldVars, input, imageVars, clipVars>>

NextFonts ==
    \/ LoadFontsReadDirFails
    \/ \E broken \in {"none", "Regular", "Bold", "Italic", "BoldItalic"} :
          LoadFontsFromEmbedded(broken)

SpecFonts == InitFonts /\ [][NextFonts]_vars

\* the names of the files (not the directories) of the listing
Files == { entries[i].name : i \in { j \in 1..Len(entries) : ~entries[j].isDir } }

\* name is some prefix followed by "-<style>.ttf"
EndsInStyle(name, style) ==
    \E pre \in 0..Len(name) :
        /\ Len(name) = pre + Len(suffixOf(style))
        /\ \A j \in 1..Len(suffixOf(style)) : name[pre + j] = suffixOf(style)[j]

Matching(style) == { n \in Files : EndsInStyle(n, style) }

StyleSet == { styles[k] : k \in 1..Len(styles) }

\* C5: the lookup fails with the duplicate error if two files end in the same
\* "-<Style>.ttf"; otherwise with the missing error naming the first style, in
\* the order Regular, Bold, Italic, BoldItalic, that no file matches; otherwise
\* it returns four faces.  Foo-Regular.ttf and Foo-Bold.ttf alone miss Italic,
\* and a "-BoldItalic.ttf" file never counts for Italic or Bold.
C5_FontLookupOutcome ==
    fontResult.err \in {"nil", "multiple files found", "missing required font file"} =>
        /\ IF \E st \in StyleSet : Cardinality(Matching(st)) >= 2
           THEN fontResult.err = "multiple files found"
           ELSE IF \E st \in StyleSet : Matching(st) = {}
           THEN /\ fontResult.err = "missing required font file"
                /\ \E k \in 1..Len(styles) :
                      /\ fontResult.style = styles[k]
                      /\ Matching(styles[k]) = {}
                      /\ \A m \in 1..(k - 1) : Matching(styles[m]) # {}
           ELSE /\ fontResult.err = "nil"
                /\ DOMAIN fontResult.faces = StyleSet
                /\ \A st \in StyleSet : fontResult.faces[st] \in Matching(st)
        /\ Files = { <<"F", "o", "o", "-", "R", "e", "g", "u", "l", "a", "r", ".", "t", "t", "f">>,
                     <<"F", "o", "o", "-", "B", "o", "l", "d", ".", "t", "t", "f">> }
           => (fontResult.err = "missing required font file"
               /\ fontResult.style = "Italic")
        /\ \A st \in DOMAIN foundFiles :
              st \in {"Italic", "Bold"} => ~EndsInStyle(foundFiles[st], "BoldItalic")

\* Foo-Regular.ttf and Foo-Bold.ttf alone: the missing error names Italic
C5_WitnessMissingItalic ==
    /\ Files = { <<"F", "o", "o", "-", "R", "e", "g", "u", "l", "a", "r", ".", "t", "t", "f">>,
                 <<"F", "o", "o", "-", "B", "o", "l", "d", ".", "t", "t", "f">> }
    /\ fontResult.err = "missing required font file"
    /\ fontResult.style = "Italic"

====
